---------------------------- MODULE Spec2Model ----------------------------
(***************************************************************************)
(* Model of mypy/fscache.py: FileSystemMetaCache and FileSystemCache, the  *)
(* per-transaction cache of os.stat, os.listdir and decoded file content.  *)
(* The real file system is the environment: it changes between (and, for   *)
(* read_with_python_encoding, inside) the calls of the cache's API.        *)
(***************************************************************************)
EXTENDS Naturals, Sequences, FiniteSets, TLC

(* Number of changes the environment makes to the file system in one run.  *)
MaxChanges == 1

(* ------------------------------ paths ---------------------------------- *)
(* A path is a sequence of characters.  NUL stands for the character "\0", *)
(* which no path handed to the operating system may contain.               *)
SEP == "/"
NUL == "NUL"

P_d   == <<"d">>
P_dF  == <<"d", SEP, "F">>
P_df  == <<"d", SEP, "f">>
P_dS  == <<"d", SEP>>
P_bad == <<NUL, SEP, "f">>

(* Paths the callers hand to stat, isfile, isdir, exists,                  *)
(* read_with_python_encoding and md5.                                      *)
Paths == {P_dF, P_bad}

(* Paths the callers hand to listdir.                                      *)
ListPaths == {P_d}

(* Paths the callers hand to isfile_case.                                  *)
CasePaths == {P_dF, P_df, P_dS, P_bad}

Max(S) == IF S = {} THEN 0 ELSE CHOOSE i \in S : \A j \in S : j <= i

(* Index of the last separator of p, 0 when p holds none (str.rfind + 1). *)
RFindSep(p) == Max({i \in 1..Len(p) : p[i] = SEP})

(* str.rstrip('/').                                                        *)
RStripSep(s) == SubSeq(s, 1, Max({i \in 1..Len(s) : s[i] # SEP}))

AllSep(s) == \A i \in 1..Len(s) : s[i] = SEP

(* The head of a split loses its trailing separators unless it consists of *)
(* separators only.                                                        *)
SplitHead(head) == IF head # <<>> /\ ~AllSep(head) THEN RStripSep(head) ELSE head

SplitAt(p, i) == << SplitHead(SubSeq(p, 1, i)), SubSeq(p, i + 1, Len(p)) >>

(* os.path.split: <<head, tail>>.                                          *)
Split(p) == SplitAt(p, RFindSep(p))

(* ------------------------- the real file system ------------------------ *)
(* One directory "d" that may hold one entry named "F".  d is a directory, *)
(* a directory without access permission, a regular file, or absent.  The  *)
(* entry is a readable file, a file without read permission, a directory,  *)
(* or absent.  mtime is the instant of the entry's last change, and stands *)
(* for its content as well.  fold: names are matched ignoring case.        *)
DKinds == {"dir", "denied", "file", "absent"}
FKinds == {"file", "locked", "dir", "absent"}

(* Error kinds.  All but ValueError are OSError; NotFound is               *)
(* FileNotFoundError.                                                      *)
OSErrors == {"NotFound", "PermissionDenied", "NotADirectory", "IsADirectory"}
Errors   == OSErrors \cup {"ValueError"}

Ok(v)   == [ok |-> TRUE, val |-> v]
Fail(k) == [ok |-> FALSE, err |-> k]

HasNul(p) == \E i \in 1..Len(p) : p[i] = NUL

(* The positions where a name of p starts, and the name starting at i.     *)
NameStarts(p) == {i \in 1..Len(p) : p[i] # SEP /\ (i = 1 \/ p[i - 1] = SEP)}
NameAt(p, i) == SubSeq(p, i, Max({j \in i..Len(p) : \A x \in i..j : p[x] # SEP}))
NthOf(S, k) == CHOOSE i \in S : Cardinality({j \in S : j < i}) = k - 1

(* The names of p between separators, empty names dropped.                 *)
Comps(p) == [k \in 1..Cardinality(NameStarts(p)) |-> NameAt(p, NthOf(NameStarts(p), k))]

TrailingSep(p) == p # <<>> /\ p[Len(p)] = SEP

MatchesEntry(fsys, name) ==
    \/ name = <<"F">>
    \/ fsys.fold /\ name = <<"f">>

(* What the names c of path p lead to: d, d as a regular file ("dfile"),   *)
(* the entry of d ("f"), or the error of the lookup.                       *)
ResolveComps(fsys, p, c) ==
    IF HasNul(p) THEN Fail("ValueError")
    ELSE IF c = <<>> \/ c[1] # <<"d">> \/ Len(c) > 2 THEN Fail("NotFound")
    ELSE IF fsys.d = "absent" THEN Fail("NotFound")
    ELSE IF Len(c) = 1 THEN
        IF fsys.d = "file" /\ TrailingSep(p) THEN Fail("NotADirectory")
        ELSE Ok(IF fsys.d = "file" THEN "dfile" ELSE "d")
    ELSE IF fsys.d = "file" THEN Fail("NotADirectory")
    ELSE IF fsys.d = "denied" THEN Fail("PermissionDenied")
    ELSE IF fsys.f = "absent" \/ ~MatchesEntry(fsys, c[2]) THEN Fail("NotFound")
    ELSE IF fsys.f # "dir" /\ TrailingSep(p) THEN Fail("NotADirectory")
    ELSE Ok("f")

Resolve(fsys, p) == ResolveComps(fsys, p, Comps(p))

(* The stat result of what a lookup found: its type and mtime.             *)
StatOfNode(fsys, r) ==
    IF ~r.ok THEN r
    ELSE IF r.val = "d" THEN Ok([type |-> "dir", mtime |-> 0])
    ELSE IF r.val = "dfile" THEN Ok([type |-> "reg", mtime |-> 0])
    ELSE Ok([type |-> IF fsys.f = "dir" THEN "dir" ELSE "reg", mtime |-> fsys.mtime])

(* os.stat(path) *)
OsStat(fsys, p) == StatOfNode(fsys, Resolve(fsys, p))

(* The names in what a lookup found.                                       *)
NamesOfNode(fsys, r) ==
    IF ~r.ok THEN r
    ELSE IF r.val = "d" THEN
        IF fsys.d = "denied" THEN Fail("PermissionDenied")
        ELSE Ok(IF fsys.f = "absent" THEN {} ELSE {<<"F">>})
    ELSE IF r.val = "f" /\ fsys.f = "dir" THEN Ok({})
    ELSE Fail("NotADirectory")

(* os.listdir(path) *)
OsListdir(fsys, p) ==
    IF HasNul(p) THEN Fail("ValueError")
    ELSE IF p = <<>> THEN Fail("NotFound")
    ELSE NamesOfNode(fsys, Resolve(fsys, p))

(* Content fingerprint of a text: different texts, different fingerprints. *)
Md5Of(text) == <<"md5", text>>

Decoded(text) == Ok([data |-> text, md5hash |-> Md5Of(text)])

(* The decoded text of what a lookup found.                                *)
TextOfNode(fsys, r) ==
    IF ~r.ok THEN r
    ELSE IF r.val = "d" THEN
        Fail(IF fsys.d = "denied" THEN "PermissionDenied" ELSE "IsADirectory")
    ELSE IF r.val = "dfile" THEN Decoded(<<"text", 0>>)
    ELSE IF fsys.f = "dir" THEN Fail("IsADirectory")
    ELSE IF fsys.f = "locked" THEN Fail("PermissionDenied")
    ELSE Decoded(<<"text", fsys.mtime>>)

(* mypy.util.read_with_python_encoding(path, pyversion): the decoded text  *)
(* and its fingerprint, or the error of opening or decoding the file.      *)
Decode(fsys, p) == TextOfNode(fsys, Resolve(fsys, p))

(* ----------------------------- the caches ------------------------------ *)
(* A dict: a function whose domain is the set of keys it holds.            *)
EmptyDict == <<>>
Put(dict, k, v) == [x \in (DOMAIN dict) \cup {k} |-> IF x = k THEN v ELSE dict[x]]

(* The fields of a FileSystemCache with every cache empty.  stat and       *)
(* listdir are the lru_cache tables of the wrapped _stat and _listdir.     *)
EmptyCaches ==
    [stat                |-> EmptyDict,
     listdir             |-> EmptyDict,
     stat_error_cache    |-> EmptyDict,
     listdir_error_cache |-> EmptyDict,
     read_cache          |-> EmptyDict,
     read_error_cache    |-> EmptyDict,
     hash_cache          |-> EmptyDict]

(* What a call leaves: the object, what it returned or raised, and the     *)
(* calls of os.stat, os.listdir and the decoder it made, in order.         *)
Result(s, out, calls) == [self |-> s, out |-> out, os |-> calls]

(* try: return <r>  except Exception as err: cache[path] = err; raise      *)
TryCaching(s, cache, p, r, call) ==
    IF r.ok THEN Result(s, r, <<call>>)
    ELSE Result([s EXCEPT ![cache] = Put(@, p, r.err)], r, <<call>>)

(* try: return <r>  except Exception: raise, the error not stored.         *)
TryNotCaching(s, cache, p, r, call) == Result(s, r, <<call>>)

(* functools.lru_cache(maxsize=None): a value returned by the wrapped      *)
(* function is stored in the table; a call that raises stores nothing.     *)
LruStore(table, p, r) ==
    IF r.out.ok THEN [r EXCEPT !.self[table] = Put(@, p, r.out.val)] ELSE r

(* _stat that forgets to store the error it raises.                        *)
MutStatNoErrorMemo(s, fsys, p) ==
    IF p \in DOMAIN s.stat_error_cache
    THEN Result(s, Fail(s.stat_error_cache[p]), <<>>)
    ELSE TryNotCaching(s, "stat_error_cache", p, OsStat(fsys, p), <<"os.stat", p>>)

(* _stat without the replay of a stored error: os.stat is tried again.     *)
MutStatNoReplay(s, fsys, p) ==
    TryCaching(s, "stat_error_cache", p, OsStat(fsys, p), <<"os.stat", p>>)

(* FileSystemMetaCache._stat *)
_stat(s, fsys, p) ==
    IF p \in DOMAIN s.stat_error_cache
    THEN Result(s, Fail(s.stat_error_cache[p]), <<>>)
    ELSE TryCaching(s, "stat_error_cache", p, OsStat(fsys, p), <<"os.stat", p>>)

(* self.stat bound to self._stat without the lru_cache wrapper.            *)
MutStatNoLru(s, fsys, p) == _stat(s, fsys, p)

(* self.stat: functools.lru_cache(maxsize=None)(self._stat)                *)
stat(s, fsys, p) ==
    IF p \in DOMAIN s.stat THEN Result(s, Ok(s.stat[p]), <<>>)
    ELSE LruStore("stat", p, _stat(s, fsys, p))

(* _listdir that forgets to store the error it raises.                     *)
MutListdirNoErrorMemo(s, fsys, p) ==
    IF p \in DOMAIN s.listdir_error_cache
    THEN Result(s, Fail(s.listdir_error_cache[p]), <<>>)
    ELSE TryNotCaching(s, "listdir_error_cache", p, OsListdir(fsys, p), <<"os.listdir", p>>)

(* FileSystemMetaCache._listdir *)
_listdir(s, fsys, p) ==
    IF p \in DOMAIN s.listdir_error_cache
    THEN Result(s, Fail(s.listdir_error_cache[p]), <<>>)
    ELSE TryCaching(s, "listdir_error_cache", p, OsListdir(fsys, p), <<"os.listdir", p>>)

(* self.listdir: functools.lru_cache(maxsize=None)(self._listdir)          *)
listdir(s, fsys, p) ==
    IF p \in DOMAIN s.listdir THEN Result(s, Ok(s.listdir[p]), <<>>)
    ELSE LruStore("listdir", p, _listdir(s, fsys, p))

(* except OSError: the handler catches this error kind.                    *)
IsOSError(k) == k \in OSErrors

(* except FileNotFoundError *)
IsFileNotFoundError(k) == k = "NotFound"

(* try: st = <r>  except OSError: return False;  return <test>(st.st_mode) *)
ModeTest(r, type) ==
    IF r.out.ok THEN [r EXCEPT !.out = Ok(r.out.val.type = type)]
    ELSE IF IsOSError(r.out.err) THEN [r EXCEPT !.out = Ok(FALSE)]
    ELSE r

(* FileSystemMetaCache.isfile: stat.S_ISREG *)
isfile(s, fsys, p) == ModeTest(stat(s, fsys, p), "reg")

(* FileSystemMetaCache.isdir: stat.S_ISDIR *)
isdir(s, fsys, p) == ModeTest(stat(s, fsys, p), "dir")

(* try: <r>  except FileNotFoundError: return False;  return True          *)
ExistsOf(r) ==
    IF r.out.ok THEN [r EXCEPT !.out = Ok(TRUE)]
    ELSE IF IsFileNotFoundError(r.out.err) THEN [r EXCEPT !.out = Ok(FALSE)]
    ELSE r

(* try: <r>  except OSError: return False;  return True                    *)
ExistsCatchingOSError(r) ==
    IF r.out.ok THEN [r EXCEPT !.out = Ok(TRUE)]
    ELSE IF IsOSError(r.out.err) THEN [r EXCEPT !.out = Ok(FALSE)]
    ELSE r

(* exists that catches OSError, as isfile and isdir do.                    *)
MutExistsCatchesOSError(s, fsys, p) == ExistsCatchingOSError(stat(s, fsys, p))

(* FileSystemMetaCache.exists *)
exists(s, fsys, p) == ExistsOf(stat(s, fsys, p))

(* res = tail in names and self.isfile(path), f being the isfile call;     *)
(* an OSError out of it would be caught, any other error propagates.       *)
CaseRes(names, f) ==
    Result(f.self,
           IF ~f.out.ok /\ IsOSError(f.out.err) THEN Ok(FALSE) ELSE f.out,
           names.os \o f.os)

(* res = self.isfile(path) and tail in names, f being the isfile call.     *)
IsfileThenName(names, tail, f) ==
    Result(f.self,
           IF ~f.out.ok
           THEN (IF IsOSError(f.out.err) THEN Ok(FALSE) ELSE f.out)
           ELSE Ok(f.out.val /\ tail \in names.out.val),
           names.os \o f.os)

(* The try block of isfile_case with the operands of "and" exchanged: the  *)
(* path is stat'ed whether or not the listing holds its name.              *)
MutCaseNamesStatsFirst(fsys, p, tail, names) ==
    IF ~names.out.ok THEN
        IF IsOSError(names.out.err) THEN [names EXCEPT !.out = Ok(FALSE)]
        ELSE names
    ELSE IsfileThenName(names, tail, isfile(names.self, fsys, p))

(* names = self.listdir(head) and what follows it in the try block.        *)
CaseNames(fsys, p, tail, names) ==
    IF ~names.out.ok THEN
        IF IsOSError(names.out.err) THEN [names EXCEPT !.out = Ok(FALSE)]
        ELSE names
    ELSE IF tail \notin names.out.val THEN [names EXCEPT !.out = Ok(FALSE)]
    ELSE CaseRes(names, isfile(names.self, fsys, p))

(* head, tail = os.path.split(path) and the branch on tail.                *)
CaseSplit(s, fsys, p, head, tail) ==
    IF tail = <<>> THEN Result(s, Ok(FALSE), <<>>)
    ELSE CaseNames(fsys, p, tail, listdir(s, fsys, head))

(* FileSystemMetaCache.isfile_case *)
isfile_case(s, fsys, p) == CaseSplit(s, fsys, p, Split(p)[1], Split(p)[2])

(* flush that leaves the two error dicts of the metadata cache alone.      *)
MutFlushKeepsErrors(s) ==
    [EmptyCaches EXCEPT !.stat_error_cache = s.stat_error_cache,
                        !.listdir_error_cache = s.listdir_error_cache]

(* flush that does not replace hash_cache.                                 *)
MutFlushKeepsHashes(s) == [EmptyCaches EXCEPT !.hash_cache = s.hash_cache]

(* flush that only calls super().flush(): the three dicts of               *)
(* FileSystemCache are not replaced.                                       *)
MutFlushMetaOnly(s) ==
    [s EXCEPT !.stat = EmptyDict, !.listdir = EmptyDict,
              !.stat_error_cache = EmptyDict, !.listdir_error_cache = EmptyDict]

(* FileSystemCache.flush, with FileSystemMetaCache.flush *)
flush(s) == EmptyCaches

(* The stores after the decoder without self.hash_cache[path] = md5hash.   *)
MutReadStoreNoHash(s, p, r, calls) ==
    IF ~r.ok
    THEN Result([s EXCEPT !.read_error_cache = Put(@, p, r.err)], r, calls)
    ELSE Result([s EXCEPT !.read_cache = Put(@, p, r.val.data)], Ok(r.val.data), calls)

(* The try block around the decoder with an except clause that re-raises   *)
(* without storing the error.                                              *)
MutReadStoreForgetsError(s, p, r, calls) ==
    IF ~r.ok
    THEN Result(s, r, calls)
    ELSE Result([s EXCEPT !.read_cache = Put(@, p, r.val.data),
                          !.hash_cache = Put(@, p, r.val.md5hash)],
                Ok(r.val.data), calls)

(* The try block around the decoder and the two stores after it: s is the  *)
(* object and calls the OS calls made when the decoder returns r.          *)
ReadStore(s, p, r, calls) ==
    IF ~r.ok
    THEN Result([s EXCEPT !.read_error_cache = Put(@, p, r.err)], r, calls)
    ELSE Result([s EXCEPT !.read_cache = Put(@, p, r.val.data),
                          !.hash_cache = Put(@, p, r.val.md5hash)],
                Ok(r.val.data), calls)

(* The store of the two branches of MutReadCachesStatError.                *)
StoreStatError(p, st) ==
    Result([st.self EXCEPT !.read_error_cache = Put(@, p, st.out.err)], st.out, st.os)

(* self.stat(path) inside the try block: its error is stored in            *)
(* read_error_cache as if the decoder had raised it.                       *)
MutReadCachesStatError(later, p, st) ==
    IF ~st.out.ok THEN StoreStatError(p, st)
    ELSE ReadStore(st.self, p, Decode(later, p), Append(st.os, <<"decode", p>>))

(* self.stat(path), st being that call, then the decoder.                  *)
ReadAfterStat(later, p, st) ==
    IF ~st.out.ok THEN st
    ELSE ReadStore(st.self, p, Decode(later, p), Append(st.os, <<"decode", p>>))

(* The decoder, r being what it returned, then self.stat(path), st being   *)
(* that call.                                                              *)
StatAfterRead(s, p, r, st) ==
    IF ~r.ok THEN ReadStore(s, p, r, << <<"decode", p>> >>)
    ELSE IF ~st.out.ok THEN Result(st.self, st.out, << <<"decode", p>> >> \o st.os)
    ELSE ReadStore(st.self, p, r, << <<"decode", p>> >> \o st.os)

(* read_with_python_encoding that reads the file before it stats it.       *)
MutReadDecodesFirst(s, fsys, later, p) ==
    IF p \in DOMAIN s.read_cache THEN Result(s, Ok(s.read_cache[p]), <<>>)
    ELSE IF p \in DOMAIN s.read_error_cache
    THEN Result(s, Fail(s.read_error_cache[p]), <<>>)
    ELSE StatAfterRead(s, p, Decode(fsys, p), stat(s, later, p))

(* read_with_python_encoding without the call of self.stat.                *)
MutReadWithoutStat(s, fsys, later, p) ==
    IF p \in DOMAIN s.read_cache THEN Result(s, Ok(s.read_cache[p]), <<>>)
    ELSE IF p \in DOMAIN s.read_error_cache
    THEN Result(s, Fail(s.read_error_cache[p]), <<>>)
    ELSE ReadStore(s, p, Decode(later, p), << <<"decode", p>> >>)

(* FileSystemCache.read_with_python_encoding.  fsys is the file system at  *)
(* the call of self.stat, later the one at the call of the decoder.        *)
read_with_python_encoding(s, fsys, later, p) ==
    IF p \in DOMAIN s.read_cache THEN Result(s, Ok(s.read_cache[p]), <<>>)
    ELSE IF p \in DOMAIN s.read_error_cache
    THEN Result(s, Fail(s.read_error_cache[p]), <<>>)
    ELSE ReadAfterStat(later, p, stat(s, fsys, p))

(* The read in a try block that swallows its error, then                   *)
(* return self.hash_cache[path].                                           *)
MutHashAfterFailedRead(p, r) ==
    IF p \in DOMAIN r.self.hash_cache
    THEN [r EXCEPT !.out = Ok(r.self.hash_cache[p])]
    ELSE [r EXCEPT !.out = Fail("KeyError")]

(* return self.hash_cache[path], r being the call that came before it.     *)
HashAfterRead(p, r) ==
    IF ~r.out.ok THEN r
    ELSE IF p \in DOMAIN r.self.hash_cache
    THEN [r EXCEPT !.out = Ok(r.self.hash_cache[p])]
    ELSE [r EXCEPT !.out = Fail("KeyError")]

(* The fingerprint of what the decoder returns now.                        *)
HashOfDecode(s, p, r) ==
    Result(s, IF r.ok THEN Ok(r.val.md5hash) ELSE r, << <<"decode", p>> >>)

(* md5 that fingerprints the file as it is now instead of using the        *)
(* fingerprint stored with the text.                                       *)
MutMd5Rereads(s, fsys, later, p) == HashOfDecode(s, p, Decode(later, p))

(* FileSystemCache.md5 *)
md5(s, fsys, later, p) ==
    IF p \in DOMAIN s.hash_cache THEN Result(s, Ok(s.hash_cache[p]), <<>>)
    ELSE HashAfterRead(p, read_with_python_encoding(s, fsys, later, p))

(* ------------------------------- state --------------------------------- *)
VARIABLES
    fs,     \* the real file system
    self,   \* the FileSystemCache object
    ret,    \* the last call of the API: operation, path, outcome, OS calls
    seen,   \* one earlier call, chosen arbitrarily; tx tells whether it
            \* was made in this transaction or in the last one
    oslog   \* how often os.stat, os.listdir and the decoder ran for each
            \* path in this transaction

vars == <<fs, self, ret, seen, oslog>>

(* The file systems one change of the environment away: d or its entry is  *)
(* created, deleted, retyped, has its permission changed, or the entry is  *)
(* rewritten (same kind, new mtime and content).                           *)
Changes(fsys) ==
    IF fsys.clock >= MaxChanges THEN {}
    ELSE {[fsys EXCEPT !.d = k, !.clock = @ + 1] : k \in DKinds \ {fsys.d}}
         \cup {[fsys EXCEPT !.f = k, !.mtime = fsys.clock + 1, !.clock = @ + 1] : k \in FKinds}

NoCall == [op |-> "none", path |-> <<>>, out |-> Ok(FALSE), os |-> <<>>]

NoneSeen == [op |-> "none", path |-> <<>>, out |-> Ok(FALSE), os |-> <<>>, tx |-> "this"]

Remembered(c) == [op |-> c.op, path |-> c.path, out |-> c.out, os |-> c.os, tx |-> "this"]

(* The names of the caches that hold an entry.                             *)
Holding(s) ==
    {n \in {"stat", "listdir", "stat_error_cache", "listdir_error_cache",
            "read_cache", "read_error_cache", "hash_cache"} : DOMAIN s[n] # {}}

Call(op, p, r) == [op |-> op, path |-> p, out |-> r.out, os |-> r.os]

(* The log with the calls of one API call added (counts stop at 2).        *)
Logged(log, calls) ==
    [c \in (DOMAIN log) \cup {calls[i] : i \in 1..Len(calls)} |->
        LET n == (IF c \in DOMAIN log THEN log[c] ELSE 0)
                 + Cardinality({i \in 1..Len(calls) : calls[i] = c})
        IN  IF n < 2 THEN n ELSE 2]

Count(log, prim, p) == IF <<prim, p>> \in DOMAIN log THEN log[<<prim, p>>] ELSE 0

Init ==
    /\ fs \in [d : DKinds, f : {"file"}, mtime : {0}, fold : {TRUE}, clock : {0}]
    /\ self = flush(EmptyCaches)
    /\ ret = NoCall
    /\ seen = NoneSeen
    /\ oslog = EmptyDict

(* The environment changes the file system between two calls.              *)
FsChange ==
    /\ fs' \in Changes(fs)
    /\ UNCHANGED <<self, ret, seen, oslog>>

(* A call returns: the object and the observers are updated.  The call is  *)
(* kept as the remembered one only if none is remembered yet and keep      *)
(* allows it.  A flush ages the remembered call, the next flush drops it.  *)
Returns(op, p, r, keep) ==
    /\ self' = r.self
    /\ ret' = Call(op, p, r)
    /\ oslog' = Logged(oslog, r.os)
    /\ \E k \in keep :
           seen' = IF k /\ seen.op = "none" THEN Remembered(Call(op, p, r)) ELSE seen

CallStat(p, keep) ==
    /\ Returns("stat", p, stat(self, fs, p), keep)
    /\ UNCHANGED fs

CallListdir(p, keep) ==
    /\ Returns("listdir", p, listdir(self, fs, p), keep)
    /\ UNCHANGED fs

CallIsfile(p, keep) ==
    /\ Returns("isfile", p, isfile(self, fs, p), keep)
    /\ UNCHANGED fs

CallIsfileCase(p, keep) ==
    /\ Returns("isfile_case", p, isfile_case(self, fs, p), keep)
    /\ UNCHANGED fs

CallIsdir(p, keep) ==
    /\ Returns("isdir", p, isdir(self, fs, p), keep)
    /\ UNCHANGED fs

CallExists(p, keep) ==
    /\ Returns("exists", p, exists(self, fs, p), keep)
    /\ UNCHANGED fs

(* The file system may change between the stat and the read of one call.   *)
CallRead(p, keep) ==
    \E later \in {fs} \cup Changes(fs) :
        /\ Returns("read", p, read_with_python_encoding(self, fs, later, p), keep)
        /\ fs' = later

CallMd5(p, keep) ==
    \E later \in {fs} \cup Changes(fs) :
        /\ Returns("md5", p, md5(self, fs, later, p), keep)
        /\ fs' = later

CallFlush ==
    /\ self' = flush(self)
    /\ ret' = [op |-> "flush", path |-> <<>>, out |-> Ok(Holding(self)), os |-> <<>>]
    /\ seen' = IF seen.op # "none" /\ seen.tx = "this" THEN [seen EXCEPT !.tx = "last"]
               ELSE NoneSeen
    /\ oslog' = EmptyDict
    /\ UNCHANGED fs

(* Every operation of the API, on every path, in any order.                *)
Next ==
    \/ FsChange
    \/ \E p \in Paths : CallStat(p, {FALSE})
    \/ \E p \in ListPaths : CallListdir(p, {FALSE})
    \/ \E p \in Paths : CallIsfile(p, {FALSE})
    \/ \E p \in CasePaths : CallIsfileCase(p, {FALSE})
    \/ \E p \in Paths : CallIsdir(p, {FALSE})
    \/ \E p \in Paths : CallExists(p, {FALSE})
    \/ \E p \in Paths : CallRead(p, {FALSE})
    \/ \E p \in Paths : CallMd5(p, {FALSE})
    \/ CallFlush

Spec == Init /\ [][Next]_vars

(* The four memoized operations, with one earlier call of the transaction  *)
(* remembered for comparison with the later ones.                          *)
NextRepeat ==
    \/ FsChange
    \/ \E p \in Paths : CallStat(p, BOOLEAN)
    \/ \E p \in ListPaths : CallListdir(p, BOOLEAN)
    \/ \E p \in Paths \ {P_bad} : CallRead(p, BOOLEAN)
    \/ \E p \in Paths \ {P_bad} : CallMd5(p, BOOLEAN)
    \/ CallFlush

SpecRepeat == Init /\ [][NextRepeat]_vars

(* Paths the callers hand to the content operations when the decoder's     *)
(* failures are followed.                                                  *)
ContentPaths == {P_dF}

(* The state after construction, the entry of d being of any kind.         *)
InitContent ==
    /\ fs \in [d : DKinds, f : FKinds, mtime : {0}, fold : {TRUE}, clock : {0}]
    /\ self = flush(EmptyCaches)
    /\ ret = NoCall
    /\ seen = NoneSeen
    /\ oslog = EmptyDict

(* stat and the two content operations on one file, with one earlier call  *)
(* of the transaction remembered.                                          *)
NextContent ==
    \/ FsChange
    \/ \E p \in ContentPaths : CallStat(p, BOOLEAN)
    \/ \E p \in ContentPaths : CallRead(p, BOOLEAN)
    \/ \E p \in ContentPaths : CallMd5(p, BOOLEAN)
    \/ CallFlush

SpecContent == InitContent /\ [][NextContent]_vars

(* ------------------------------ properties ----------------------------- *)
RepeatOps == {"stat", "listdir", "read", "md5"}

(* The last call repeats the remembered call of this transaction.          *)
SameCallAgain ==
    /\ seen.op # "none"
    /\ seen.tx = "this"
    /\ ret.op = seen.op
    /\ ret.path = seen.path

(* C1: within a transaction a later stat, listdir, read_with_python_       *)
(* encoding or md5 of a path returns the value, or raises the error kind,  *)
(* of every earlier call of the same operation on the same path, whatever  *)
(* the file system did in between.                                         *)
C1_Idempotent ==
    (SameCallAgain /\ seen.op \in RepeatOps) => ret.out = seen.out

(* C1 witness: a text read and remembered, then read again from the cache  *)
(* after the file became unreadable on disk.                               *)
C1_Witness ==
    /\ SameCallAgain
    /\ seen.op = "read"
    /\ seen.os # <<>>
    /\ ret.os = <<>>
    /\ ret.out.ok
    /\ ~Decode(fs, ret.path).ok

(* C2: where a path has both a cached stat result and cached content, the  *)
(* content is of a version of the file that is the same as or later than   *)
(* the version the stat result reports.                                    *)
C2_ContentNotStaler ==
    \A p \in (DOMAIN self.read_cache) \cap (DOMAIN self.stat) :
        self.read_cache[p][2] >= self.stat[p].mtime

(* C2 witness: the file was rewritten between the stat and the read, and   *)
(* the cached content is the newer version.                                *)
C2_Witness ==
    \E p \in (DOMAIN self.read_cache) \cap (DOMAIN self.stat) :
        self.read_cache[p][2] > self.stat[p].mtime

(* The path was stat'ed with success in the transaction of state (s, log). *)
StatDone(s, log, p) == p \in DOMAIN s.stat /\ Count(log, "os.stat", p) >= 1

(* C3: every call of the decoder for a path comes after an os.stat of the  *)
(* path that succeeded in the same transaction: one made earlier in the    *)
(* transaction, or one made earlier in the same call.                      *)
C3_StatBeforeDecode ==
    [][\A i \in 1..Len(ret'.os) :
          ret'.os[i][1] = "decode" =>
              LET p == ret'.os[i][2] IN
              /\ StatDone(self', oslog', p)
              /\ \/ StatDone(self, oslog, p)
                 \/ \E j \in 1..(i - 1) : ret'.os[j] = <<"os.stat", p>>]_vars

(* C3 witness: a read that called the decoder only, the path having been   *)
(* stat'ed by an earlier call of the transaction.                          *)
C3_Witness ==
    /\ ret.op = "read"
    /\ ret.os = << <<"decode", ret.path>> >>
    /\ StatDone(self, oslog, ret.path)

(* C4: after a stat or a listdir of a path has failed in a transaction,    *)
(* a later call of the same operation on the path fails with the same      *)
(* kind, and the OS primitive has run once for the path in the             *)
(* transaction, although the path may be valid on disk by then.            *)
C4_ErrorMemo ==
    (SameCallAgain /\ seen.op \in {"stat", "listdir"} /\ ~seen.out.ok) =>
        /\ ~ret.out.ok
        /\ ret.out.err = seen.out.err
        /\ Count(oslog, IF seen.op = "stat" THEN "os.stat" ELSE "os.listdir", seen.path) = 1

(* C4 witness: a listdir failed, the directory became listable, and the    *)
(* repeated listdir failed again without a call of os.listdir.             *)
C4_Witness ==
    /\ SameCallAgain
    /\ seen.op = "listdir"
    /\ ~seen.out.ok
    /\ seen.os # <<>>
    /\ ret.os = <<>>
    /\ OsListdir(fs, ret.path).ok

(* C5: right after flush none of the seven caches holds an entry.          *)
C5_FlushEmpties ==
    ret.op = "flush" => Holding(self) = {}

(* C5 witness: a flush that found six of the caches holding entries.       *)
C5_Witness ==
    /\ ret.op = "flush"
    /\ Cardinality(ret.out.val) >= 6

(* What an operation yields when nothing is cached: fsys is the file       *)
(* system at the call, later the one when the file is read.                *)
Fresh(op, fsys, later, p) ==
    LET st == OsStat(fsys, p)
        r  == Decode(later, p)
    IN  CASE op = "stat" -> st
          [] op = "listdir" -> OsListdir(fsys, p)
          [] op = "read" -> IF ~st.ok THEN st ELSE IF r.ok THEN Ok(r.val.data) ELSE r
          [] op = "md5" -> IF ~st.ok THEN st ELSE IF r.ok THEN Ok(r.val.md5hash) ELSE r

(* The call made the underlying calls itself.                              *)
Requeried(op, fsys, calls, p) ==
    CASE op = "stat" -> calls = << <<"os.stat", p>> >>
      [] op = "listdir" -> calls = << <<"os.listdir", p>> >>
      [] OTHER -> IF OsStat(fsys, p).ok
                  THEN calls = << <<"os.stat", p>>, <<"decode", p>> >>
                  ELSE calls = << <<"os.stat", p>> >>

(* C6: the first stat, listdir, read_with_python_encoding or md5 after a   *)
(* flush calls the OS primitive or decoder again and yields the outcome of *)
(* the file system as it is at that call.                                  *)
C6_FreshAfterFlush ==
    [][(ret.op = "flush" /\ ret'.op \in RepeatOps) =>
          /\ ret'.out = Fresh(ret'.op, fs, fs', ret'.path)
          /\ Requeried(ret'.op, fs, ret'.os, ret'.path)]_vars

(* C6 witness: a stat failed in the last transaction and, after the flush, *)
(* the same stat called os.stat and succeeded.                             *)
C6_Witness ==
    /\ seen.op = "stat"
    /\ seen.tx = "last"
    /\ ~seen.out.ok
    /\ ret.op = "stat"
    /\ ret.path = seen.path
    /\ ret.out.ok
    /\ ret.os # <<>>

(* C7: isfile, isdir and isfile_case return a boolean for every path and   *)
(* every error kind of the underlying stat or listdir; they never raise.   *)
C7_DerivedNeverRaise ==
    ret.op \in {"isfile", "isdir", "isfile_case"} =>
        ret.out.ok /\ ret.out.val \in BOOLEAN

StatFailedWith(p, kinds) ==
    p \in DOMAIN self.stat_error_cache /\ self.stat_error_cache[p] \in kinds

(* C8: exists returns true when stat succeeds, false only when stat fails  *)
(* with NotFound, and raises every other error kind of stat; isfile and    *)
(* isdir return false where stat fails with an OS-level kind.              *)
C8_ExistsAsymmetry ==
    /\ ret.op = "exists" =>
          /\ ret.path \in DOMAIN self.stat => ret.out = Ok(TRUE)
          /\ StatFailedWith(ret.path, {"NotFound"}) => ret.out = Ok(FALSE)
          /\ ret.out = Ok(FALSE) => StatFailedWith(ret.path, {"NotFound"})
          /\ StatFailedWith(ret.path, Errors \ {"NotFound"}) =>
                 ret.out = Fail(self.stat_error_cache[ret.path])
    /\ (ret.op \in {"isfile", "isdir"} /\ StatFailedWith(ret.path, OSErrors)) =>
          ret.out = Ok(FALSE)

(* C8 witness: exists raising PermissionDenied replayed from the stat      *)
(* error cache.                                                            *)
C8_Witness ==
    /\ ret.op = "exists"
    /\ ret.out = Fail("PermissionDenied")
    /\ ret.os = <<>>

(* What the claim says isfile_case(p) returns, from the cached listing of  *)
(* the parent and the cached stat of p.                                    *)
ExactCaseFile(p) ==
    LET head == Split(p)[1]
        tail == Split(p)[2]
    IN  /\ tail # <<>>
        /\ head \in DOMAIN self.listdir
        /\ tail \in self.listdir[head]
        /\ p \in DOMAIN self.stat
        /\ self.stat[p].type = "reg"

(* C9: isfile_case(p) returns true exactly when the final component is     *)
(* not empty, the listing of the parent succeeds and holds the final       *)
(* component in its exact case, and isfile(p) is true; false otherwise.    *)
C9_ExactCase ==
    ret.op = "isfile_case" => ret.out = Ok(ExactCaseFile(ret.path))

(* C10: md5 returns the fingerprint stored with the cached text of the     *)
(* path: it is the fingerprint of the text read_with_python_encoding       *)
(* returns, in either call order, and the decoder has run once for a path  *)
(* with cached content, even if the file changed on disk afterwards.       *)
C10_FingerprintOfCachedText ==
    /\ (ret.op = "md5" /\ ret.out.ok) =>
          /\ ret.path \in DOMAIN self.read_cache
          /\ ret.out.val = Md5Of(self.read_cache[ret.path])
    /\ (seen.op = "read" /\ seen.tx = "this" /\ seen.out.ok
            /\ ret.op = "md5" /\ ret.path = seen.path) =>
          ret.out = Ok(Md5Of(seen.out.val))
    /\ (seen.op = "md5" /\ seen.tx = "this" /\ seen.out.ok
            /\ ret.op = "read" /\ ret.path = seen.path) =>
          (ret.out.ok /\ seen.out.val = Md5Of(ret.out.val))
    /\ \A p \in DOMAIN self.read_cache : Count(oslog, "decode", p) = 1

(* C10 witness: a text read, the file rewritten, then md5 served from the  *)
(* cache with the fingerprint of the text that was read.                   *)
C10_Witness ==
    /\ seen.op = "read"
    /\ seen.tx = "this"
    /\ seen.out.ok
    /\ ret.op = "md5"
    /\ ret.path = seen.path
    /\ ret.os = <<>>
    /\ Decode(fs, ret.path).ok
    /\ Decode(fs, ret.path).val.data # seen.out.val

(* stat(p) fails in state (s, fsys): no result is cached, and an error is  *)
(* cached or os.stat fails now.                                            *)
StatFails(s, fsys, p) ==
    /\ p \notin DOMAIN s.stat
    /\ p \in DOMAIN s.stat_error_cache \/ ~OsStat(fsys, p).ok

(* The failure stat(p) raises then, replayed or fresh.                     *)
StatFailure(s, fsys, p) ==
    IF p \in DOMAIN s.stat_error_cache THEN Fail(s.stat_error_cache[p])
    ELSE OsStat(fsys, p)

NoEntryInContentCaches(s, p) ==
    /\ p \notin DOMAIN s.read_cache
    /\ p \notin DOMAIN s.read_error_cache

(* C11: a read_with_python_encoding of a path with no cached content or    *)
(* read error whose stat fails, freshly or replayed, raises the failure of *)
(* stat, does not call the decoder, and leaves read_cache, hash_cache and  *)
(* read_error_cache as they were; of all caches only stat_error_cache may  *)
(* gain an entry, for the path.                                            *)
C11_FailingStatBlocksContent ==
    [][(/\ ret'.op = "read"
        /\ NoEntryInContentCaches(self, ret'.path)
        /\ StatFails(self, fs, ret'.path)) =>
          /\ ret'.out = StatFailure(self, fs, ret'.path)
          /\ \A i \in 1..Len(ret'.os) : ret'.os[i][1] # "decode"
          /\ self'.read_cache = self.read_cache
          /\ self'.hash_cache = self.hash_cache
          /\ self'.read_error_cache = self.read_error_cache
          /\ self'.stat = self.stat
          /\ self'.listdir = self.listdir
          /\ self'.listdir_error_cache = self.listdir_error_cache
          /\ self'.stat_error_cache =
                 Put(self.stat_error_cache, ret'.path,
                     StatFailure(self, fs, ret'.path).err)]_vars

(* C11 witness: a read that raised the replayed failure of an earlier stat *)
(* although the file is readable by now; nothing was stored for the path   *)
(* in the content caches.                                                  *)
C11_Witness ==
    /\ ret.op = "read"
    /\ ~ret.out.ok
    /\ ret.os = <<>>
    /\ ret.path \in DOMAIN self.stat_error_cache
    /\ NoEntryInContentCaches(self, ret.path)
    /\ ret.path \notin DOMAIN self.hash_cache
    /\ OsStat(fs, ret.path).ok
    /\ Decode(fs, ret.path).ok

(* The call ran the decoder and the decoder failed.                        *)
DecoderFailed(c) ==
    /\ ~c.out.ok
    /\ \E i \in 1..Len(c.os) : c.os[i][1] = "decode"

ContentOps == {"read", "md5"}

(* C12: once the decoder has failed for a path in a transaction, the error *)
(* is in read_error_cache, every later read_with_python_encoding and md5   *)
(* of the path in the transaction raises the same kind, and the decoder    *)
(* has run once for the path, even if the file is readable by then.        *)
C12_FailedReadNotRetried ==
    /\ (/\ seen.op \in ContentOps
        /\ seen.tx = "this"
        /\ DecoderFailed(seen)) =>
          /\ seen.path \in DOMAIN self.read_error_cache
          /\ self.read_error_cache[seen.path] = seen.out.err
          /\ Count(oslog, "decode", seen.path) = 1
          /\ (ret.op \in ContentOps /\ ret.path = seen.path) => ret.out = seen.out
    /\ \A p \in DOMAIN self.read_error_cache : Count(oslog, "decode", p) = 1
    /\ (ret.op \in ContentOps /\ ret.path \in DOMAIN self.read_error_cache) =>
          ret.out = Fail(self.read_error_cache[ret.path])

(* C12 witness: the decoder failed in a remembered read, the file became   *)
(* readable, and a later md5 raised the cached error without any call.     *)
C12_Witness ==
    /\ seen.op = "read"
    /\ seen.tx = "this"
    /\ DecoderFailed(seen)
    /\ ret.op = "md5"
    /\ ret.path = seen.path
    /\ ret.os = <<>>
    /\ ret.out = seen.out
    /\ Decode(fs, ret.path).ok

(* os.path.join(head, name) for a head without trailing separator.         *)
Join(head, name) == head \o <<SEP>> \o name

(* C13: within a transaction the operations on a path do not contradict    *)
(* each other: a read_with_python_encoding of a path whose cached stat     *)
(* result, made by an earlier call, is a regular file does not raise       *)
(* NotFound, and no name of a cached listing has NotFound as the cached    *)
(* stat error of the path it names.                                        *)
C13_MutuallyConsistent ==
    /\ (/\ ret.op = "read"
        /\ ret.os = << <<"decode", ret.path>> >>
        /\ ret.path \in DOMAIN self.stat
        /\ self.stat[ret.path].type = "reg") => ret.out # Fail("NotFound")
    /\ \A head \in DOMAIN self.listdir : \A name \in self.listdir[head] :
           ~StatFailedWith(Join(head, name), {"NotFound"})

Exclusive(results, errors) == (DOMAIN results) \cap (DOMAIN errors) = {}

(* C14: no path has both a cached stat result and a cached stat error,     *)
(* both a cached listing and a cached listdir error, or both cached        *)
(* content and a cached read error.                                        *)
C14_SuccessErrorExclusive ==
    /\ Exclusive(self.stat, self.stat_error_cache)
    /\ Exclusive(self.listdir, self.listdir_error_cache)
    /\ Exclusive(self.read_cache, self.read_error_cache)

(* C14 witness: a stat error and a listdir error are cached, os.stat and   *)
(* os.listdir would succeed by now, and the stat was just repeated: no     *)
(* result joined the error.                                                *)
C14_Witness ==
    /\ ret.op = "stat"
    /\ ret.os = <<>>
    /\ ret.path \in DOMAIN self.stat_error_cache
    /\ OsStat(fs, ret.path).ok
    /\ \E d \in DOMAIN self.listdir_error_cache : OsListdir(fs, d).ok

(* C15: every path with cached content, and every path with a cached read  *)
(* error, has a cached stat result made by the one os.stat of the path in  *)
(* the current transaction, whatever operations and flushes came before.   *)
C15_ContentRequiresStat ==
    \A p \in (DOMAIN self.read_cache) \cup (DOMAIN self.read_error_cache) :
        /\ p \in DOMAIN self.stat
        /\ Count(oslog, "os.stat", p) = 1

(* C15 witness: a text read in the last transaction and, after the flush,  *)
(* read again: the call made os.stat before the decoder, and both the      *)
(* stat result and the content are cached.                                 *)
C15_Witness ==
    /\ seen.op = "read"
    /\ seen.tx = "last"
    /\ seen.out.ok
    /\ ret.op = "read"
    /\ ret.path = seen.path
    /\ ret.os = << <<"os.stat", ret.path>>, <<"decode", ret.path>> >>
    /\ ret.path \in DOMAIN self.read_cache
    /\ ret.path \in DOMAIN self.stat

(* The cached stat result of p exists and has the given type.              *)
CachedType(p, type) == p \in DOMAIN self.stat /\ self.stat[p].type = type

(* C16: isfile(p) is true exactly when the stat of p in this transaction   *)
(* succeeded with the regular-file type, isdir(p) exactly when it          *)
(* succeeded with the directory type, both are false when it failed, and   *)
(* isfile, isdir and exists leave os.stat called once for the path in the  *)
(* transaction.                                                            *)
C16_FunctionsOfCachedStat ==
    /\ ret.op = "isfile" => ret.out = Ok(CachedType(ret.path, "reg"))
    /\ ret.op = "isdir" => ret.out = Ok(CachedType(ret.path, "dir"))
    /\ ret.op \in {"isfile", "isdir", "exists"} =>
          Count(oslog, "os.stat", ret.path) = 1

(* C17: between two flushes os.stat, os.listdir and the decoder each run   *)
(* at most once for a path, whatever public operations are called and      *)
(* whether the first call succeeded or failed.                             *)
C17_NoRedundantCalls ==
    \A c \in DOMAIN oslog : oslog[c] <= 1

(* C17 witness: os.stat failed for one path and succeeded for another,     *)
(* os.listdir and the decoder ran, and the last call, an isfile_case that  *)
(* needs a listing and a stat, was answered without any underlying call.   *)
C17_Witness ==
    /\ ret.op = "isfile_case"
    /\ ret.out = Ok(TRUE)
    /\ ret.os = <<>>
    /\ Count(oslog, "os.stat", ret.path) = 1
    /\ Count(oslog, "os.listdir", Split(ret.path)[1]) = 1
    /\ Count(oslog, "decode", ret.path) = 1
    /\ \E p \in DOMAIN self.stat_error_cache : Count(oslog, "os.stat", p) = 1

(* The error a failed read of p has left in the caches: the read error if  *)
(* the decoder failed, else the stat error.                                *)
CachedReadFailure(s, p) ==
    IF p \in DOMAIN s.read_error_cache THEN s.read_error_cache[p]
    ELSE s.stat_error_cache[p]

(* C18: md5 of a path whose read fails, because stat or the decoder fails  *)
(* or failed earlier in the transaction, raises the error kind of the      *)
(* read, never a KeyError, and leaves hash_cache and read_cache without an *)
(* entry for the path.                                                     *)
C18_Md5RaisesReadError ==
    /\ (ret.op = "md5" /\ ~ret.out.ok) =>
          /\ ret.out.err \in Errors
          /\ ret.path \in (DOMAIN self.read_error_cache) \cup (DOMAIN self.stat_error_cache)
          /\ ret.out.err = CachedReadFailure(self, ret.path)
          /\ ret.path \notin DOMAIN self.hash_cache
          /\ ret.path \notin DOMAIN self.read_cache
    /\ (/\ ret.op = "md5"
        /\ ret.path \in (DOMAIN self.read_error_cache) \cup (DOMAIN self.stat_error_cache)) =>
          ~ret.out.ok

(* C18 witness: md5 raising the replayed error of the decoder for a file   *)
(* that is readable by now.                                                *)
C18_Witness ==
    /\ ret.op = "md5"
    /\ ~ret.out.ok
    /\ ret.os = <<>>
    /\ ret.path \in DOMAIN self.read_error_cache
    /\ ret.path \notin DOMAIN self.hash_cache
    /\ Decode(fs, ret.path).ok

(* C19: read_cache and hash_cache hold entries for the same paths, and md5 *)
(* of a path returns a value once read_with_python_encoding of the path    *)
(* has succeeded in the transaction.                                       *)
C19_ContentAndHashTogether ==
    /\ DOMAIN self.read_cache = DOMAIN self.hash_cache
    /\ (ret.op = "md5" /\ ret.path \in DOMAIN self.read_cache) => ret.out.ok
    /\ (/\ seen.op = "read"
        /\ seen.tx = "this"
        /\ seen.out.ok
        /\ ret.op = "md5"
        /\ ret.path = seen.path) => ret.out.ok

(* C19 witness: a text read with success, the file made unreadable, and    *)
(* md5 of the path returning the stored fingerprint.                       *)
C19_Witness ==
    /\ seen.op = "read"
    /\ seen.tx = "this"
    /\ seen.out.ok
    /\ ret.op = "md5"
    /\ ret.path = seen.path
    /\ ret.out.ok
    /\ ret.path \in (DOMAIN self.read_cache) \cap (DOMAIN self.hash_cache)
    /\ ~Decode(fs, ret.path).ok

CacheNames ==
    {"stat", "listdir", "stat_error_cache", "listdir_error_cache",
     "read_cache", "read_error_cache", "hash_cache"}

(* The keys of cache n an operation op on path p may change.               *)
Touched(op, p, n) ==
    IF op = "isfile_case" /\ n \in {"listdir", "listdir_error_cache"}
    THEN {p, Split(p)[1]}
    ELSE {p}

(* Dicts a and b hold the same entries outside the keys K.                 *)
SameOutside(a, b, K) ==
    /\ (DOMAIN a) \ K = (DOMAIN b) \ K
    /\ \A q \in (DOMAIN a) \ K : a[q] = b[q]

(* The listing of the parent of p is not cached in s or lacks the final    *)
(* component of p.                                                         *)
NotListed(s, p) ==
    \/ Split(p)[1] \notin DOMAIN s.listdir
    \/ Split(p)[2] \notin s.listdir[Split(p)[1]]

PathOps ==
    {"stat", "listdir", "isfile", "isfile_case", "isdir", "exists", "read", "md5"}

(* C20: an operation on a path changes cache entries of that path only     *)
(* and, for isfile_case, the listing entry of the parent; a call that      *)
(* makes no underlying call changes no cache; isfile_case of a path with   *)
(* an empty final component makes no underlying call and changes no cache, *)
(* and where the listing of the parent fails or lacks the final component  *)
(* it does not stat the path.                                              *)
C20_FrameOfQueries ==
    [][ret'.op \in PathOps =>
          /\ \A n \in CacheNames :
                 \/ self'[n] = self[n]
                 \/ SameOutside(self[n], self'[n], Touched(ret'.op, ret'.path, n))
          /\ ret'.os = <<>> => self' = self
          /\ (ret'.op = "isfile_case" /\ Split(ret'.path)[2] = <<>>) =>
                 (ret'.os = <<>> /\ self' = self)
          /\ (/\ ret'.op = "isfile_case"
              /\ Split(ret'.path)[2] # <<>>
              /\ NotListed(self', ret'.path)) =>
                 /\ self'.stat = self.stat
                 /\ self'.stat_error_cache = self.stat_error_cache
                 /\ \A i \in 1..Len(ret'.os) : ret'.os[i][1] # "os.stat"]_vars

(* C20 witness: isfile_case of a path whose name differs in case from the  *)
(* listed one: os.listdir was called for the parent, the path was not      *)
(* stat'ed although os.stat would succeed, and the entries of another      *)
(* path are cached.                                                        *)
C20_Witness ==
    /\ ret.op = "isfile_case"
    /\ ret.out = Ok(FALSE)
    /\ ret.os = << <<"os.listdir", Split(ret.path)[1]>> >>
    /\ Split(ret.path)[1] \in DOMAIN self.listdir
    /\ Split(ret.path)[2] \notin self.listdir[Split(ret.path)[1]]
    /\ ret.path \notin (DOMAIN self.stat) \cup (DOMAIN self.stat_error_cache)
    /\ OsStat(fs, ret.path).ok
    /\ \E q \in DOMAIN self.read_cache : q # ret.path
    /\ \E q \in DOMAIN self.stat_error_cache : q # ret.path

=============================================================================
